---- MODULE Spec2Model ----
(***************************************************************************)
(* Model of the Docker log collector service                               *)
(* (src/modules/backup/actions/docker_log_collector_service.py).           *)
(*                                                                         *)
(* The state is the part of the world the service reads and writes: the    *)
(* container runtime's JSON log files (read only), the local directory     *)
(* tree /tmp/docker-logs, the S3 bucket, the service object's attribute    *)
(* temp_files_to_cleanup and the wall clock.  One action models one whole  *)
(* call of collect_docker_logs, one whole upload step of main's loop       *)
(* (listing, upload_to_s3, cleanup_old_logs); the environment actions are  *)
(* the passing of time and the container runtime appending a log line.     *)
(* cleanup_old_s3_logs of docker_log_s3_cleanup.py, the remote sweep, is   *)
(* one action on the bucket.                                               *)
(***************************************************************************)
EXTENDS Integers, Sequences, FiniteSets, TLC

(***************************************************************************)
(* Bounds of the model.                                                    *)
(***************************************************************************)
\* The lines the container runtime writes in a run, over all its files.
MaxWrites == 2
\* The times the clock is moved forward in a run.
MaxAdvances == 1
\* The lines of a source file whose content is drawn at the start.
MaxLines == 3
\* The objects of one page of a listing of the bucket.
PageSize == 2

(***************************************************************************)
(* Program constants.                                                      *)
(***************************************************************************)
ONE_HOUR == 3600
MAX_AGE_DAYS == 7
SecondsPerDay == 24 * 3600

\* The instant at which the model starts: 23:00 of day 0 (civil time in the
\* service's timezone).  Steps of 45 minutes give two instants in one hour,
\* then cross the day; a line is older than one hour after two steps.
StartTime == 23 * 3600
\* The time that passes in one Advance step.
AdvanceStep == 45 * 60
EndTime == StartTime + MaxAdvances * AdvanceStep

\* The source log files (*-json.log) under docker_log_dir, <<container id,
\* file>>: one container directory holding two files.
OneContainer == {<<1, 1>>, <<1, 2>>}

Streams == {"stdout", "stderr"}
\* What a line of a source file is to the parser:
\*   rec       a JSON object whose "time" is a parseable timestamp string
\*   badjson   not valid JSON
\*   nots      a JSON object with no (or an empty) "time"
\*   badts     a JSON object whose "time" is a string that does not parse
\*   nonstrts  a JSON object whose "time" is a non-empty value that is no string
\*   nonobj    valid JSON that is not an object (a number, a list, a string)
AllKinds == {"rec", "badjson", "nots", "badts", "nonstrts", "nonobj"}

VARIABLES
  clock,                  \* seconds since 00:00 of day 0
  source,                 \* source[<<c, f>>]: the lines of a runtime log file
  local,                  \* the files under log_base_dir: path -> [data, mtime]
  remote,                 \* the bucket: key -> object
  temp_files_to_cleanup,  \* the service's attribute (a list of temp paths)
  last,                   \* what the last operation did (its locals and calls)
  main                    \* main's locals and the place it has reached

vars == <<clock, source, local, remote, temp_files_to_cleanup, last, main>>

(***************************************************************************)
(* Time formatting (strftime of the civil time).                           *)
(***************************************************************************)
DateStr(t) == t \div SecondsPerDay
HourOf(t) == (t % SecondsPerDay) \div ONE_HOUR
MinuteOf(t) == (t % ONE_HOUR) \div 60
\* "%Hh%Mmin": the hour and the minute of the instant.
TimeStr(t) == <<HourOf(t), MinuteOf(t)>>

(***************************************************************************)
(* Paths under log_base_dir.                                               *)
(***************************************************************************)
\* <name>/<date>/<HH>h<MM>min_<kind>.log
ArtifactPath(name, date, ts, kind) ==
  [typ |-> "log", name |-> name, date |-> date, hh |-> ts[1], mm |-> ts[2],
   kind |-> kind, cid |-> 0, file |-> 0]
\* <name>/<date>/<container_id>_<log file name>_temp
TempPath(name, date, c, f) ==
  [typ |-> "temp", name |-> name, date |-> date, hh |-> 0, mm |-> 0,
   kind |-> "-", cid |-> c, file |-> f]
\* log_file.with_suffix(".log.gz")
CompressedPath(p) == [p EXCEPT !.typ = "gz"]

IsArtifact(p) == p.typ = "log"
IsTemp(p) == p.typ = "temp"
IsCompressed(p) == p.typ = "gz"

Exists(fs, p) == p \in DOMAIN fs
Remove(fs, ps) == [q \in (DOMAIN fs) \ ps |-> fs[q]]
Put(fs, p, file) == [q \in (DOMAIN fs) \cup {p} |-> IF q = p THEN file ELSE fs[q]]

\* open(path, "a") and writelines: the lines are added after the file's own.
AppendFile(fs, p, lines, t) ==
  Put(fs, p, [data |-> (IF p \in DOMAIN fs THEN fs[p].data ELSE <<>>) \o lines,
              mtime |-> t])

\* open(path, "w") and writelines: the file holds exactly the lines written.
WriteFile(fs, p, lines, t) == Put(fs, p, [data |-> lines, mtime |-> t])

EmptyFs == [q \in {} |-> 0]

(***************************************************************************)
(* The parse-and-filter loop of collect_docker_logs over one file's lines. *)
(***************************************************************************)
\* The line makes the loop body raise an exception that none of the loop's
\* except clauses catches (AttributeError of .get or of .replace).
Raises(line) == line.kind \in {"nonobj", "nonstrts"}

\* The line reaches the comparison with the cutoff and passes it.
Kept(line, cutoff) == line.kind = "rec" /\ line.ts >= cutoff

IsStderr(line) == line.stream = "stderr"

RECURSIVE HarvestFrom(_, _, _, _, _)
HarvestFrom(lines, i, cutoff, all, errs) ==
  IF i > Len(lines)
  THEN [raised |-> FALSE, all_logs |-> all, error_logs |-> errs]
  ELSE IF Raises(lines[i])
  THEN [raised |-> TRUE, all_logs |-> all, error_logs |-> errs]
  ELSE IF Kept(lines[i], cutoff)
  THEN HarvestFrom(lines, i + 1, cutoff, Append(all, lines[i]),
                   IF IsStderr(lines[i]) THEN Append(errs, lines[i]) ELSE errs)
  ELSE HarvestFrom(lines, i + 1, cutoff, all, errs)

Harvest(lines, cutoff) == HarvestFrom(lines, 1, cutoff, <<>>, <<>>)

(***************************************************************************)
(* collect_docker_logs.                                                    *)
(***************************************************************************)
\* How "docker inspect --format {{.Name}} <container id>" can end:
\*   named   exit code 0, the output is the container's name
\*   empty   exit code 0, the output is empty (or only "/" and blanks)
\*   failed  a non-zero exit code, an exception or the timeout
LookupResults == {"named", "empty", "failed"}

\* The name docker reports for container c, the container's identifier used
\* as a name, and the empty string.
DockerName(c) == <<"name", c>>
IdAsName(c) == <<"id", c>>
EmptyName == <<>>

\* container_name after the lookup: result.stdout.strip().lstrip("/") when
\* the exit code is 0, the container's identifier otherwise.
ContainerName(c, result) ==
  CASE result = "named" -> DockerName(c)
    [] result = "empty" -> EmptyName
    [] OTHER -> IdAsName(c)

\* A copy that leaves the source file empty.
CopyAndTruncate(src, cf) == [src |-> [src EXCEPT ![cf] = <<>>], data |-> src[cf]]

\* shutil.copy2(log_file, temp_log_file): the data copied, and the source
\* files after the copy.
Copy2(src, cf) == [src |-> src, data |-> src[cf]]

\* The body of "for log_file in log_files" for file f of container c, whose
\* directory is named name, on the running state
\* st = [src, fs, temps, out, aborted]; out records, per file, how the body
\* ended and the lists it had built.  The temp copy's content is not
\* modelled: nothing reads it once the body has ended.
CollectFile(st, c, f, name, t, copyFails) ==
  LET date == DateStr(t)
      temp == TempPath(name, date, c, f)
      cp == Copy2(st.src, <<c, f>>)
      lines == cp.data
      fs1 == Put(st.fs, temp, [data |-> <<>>, mtime |-> 0])
      temps1 == Append(st.temps, temp)
      h == Harvest(lines, t - ONE_HOUR)
      pAll == ArtifactPath(name, date, TimeStr(t), "all")
      pErr == ArtifactPath(name, date, TimeStr(t), "errors")
      fs2 == IF h.all_logs # <<>> THEN WriteFile(fs1, pAll, h.all_logs, t) ELSE fs1
      fs3 == IF h.error_logs # <<>> THEN WriteFile(fs2, pErr, h.error_logs, t) ELSE fs2
      Out(status, hv) ==
        [q \in (DOMAIN st.out) \cup {<<c, f>>} |->
           IF q = <<c, f>>
           THEN [status |-> status, name |-> name,
                 all_logs |-> hv.all_logs, error_logs |-> hv.error_logs]
           ELSE st.out[q]]
      none == [all_logs |-> <<>>, error_logs |-> <<>>]
      copied == [st EXCEPT !.src = cp.src, !.fs = fs1, !.temps = temps1]
  IN  IF <<c, f>> \in copyFails
      THEN [st EXCEPT !.out = Out("copy_error", none)]
      ELSE IF lines = <<>>
      THEN [copied EXCEPT !.out = Out("empty", none)]
      ELSE IF h.raised
      THEN [copied EXCEPT !.out = Out("raised", h)]
      ELSE [copied EXCEPT !.fs = fs3, !.out = Out("ok", h)]

\* The elements of S in each order a directory listing may give them.
RECURSIVE Orders(_)
Orders(S) ==
  IF S = {} THEN {<<>>}
  ELSE UNION {{<<x>> \o o : o \in Orders(S \ {x})} : x \in S}

ContainerDirs(src) == {cf[1] : cf \in DOMAIN src}
LogFiles(src, c) == {cf \in DOMAIN src : cf[1] = c}

\* "for log_file in log_files" over the files of one container, in order.
RECURSIVE CollectFiles(_, _, _, _, _)
CollectFiles(st, order, name, t, copyFails) ==
  IF order = <<>> THEN st
  ELSE CollectFiles(
         CollectFile(st, Head(order)[1], Head(order)[2], name, t, copyFails),
         Tail(order), name, t, copyFails)

\* The body of "for container_dir in docker_log_dir.iterdir()" for container
\* c: the name lookup, the creation of the container's directory and the
\* listing of its log files, which raise when c is in dirFails, then the
\* loop over the files.  An exception raised here is caught by the except
\* of the whole function: the containers after c are not processed.
CollectContainer(st, c, t, copyFails, lookups, dirFails) ==
  IF st.aborted THEN {st}
  ELSE IF c \in dirFails THEN {[st EXCEPT !.aborted = TRUE]}
  ELSE {CollectFiles(st, o, ContainerName(c, lookups[c]), t, copyFails) :
          o \in Orders(LogFiles(st.src, c))}

\* The loop over the containers in the order corder: the states it can end
\* in, over the orders in which each directory's files are listed.
RECURSIVE CollectContainers(_, _, _, _, _, _)
CollectContainers(sts, corder, t, copyFails, lookups, dirFails) ==
  IF corder = <<>> THEN sts
  ELSE CollectContainers(
         UNION {CollectContainer(st, Head(corder), t, copyFails, lookups, dirFails) :
                  st \in sts},
         Tail(corder), t, copyFails, lookups, dirFails)

\* The temp paths of a list, in the order of their container and file
\* identifiers.
RECURSIVE SortTemps(_)
SortTemps(S) ==
  IF S = {} THEN <<>>
  ELSE LET m == CHOOSE x \in S :
                  \A y \in S : x.cid * 10 + x.file <= y.cid * 10 + y.file
       IN  <<m>> \o SortTemps(S \ {m})

\* collect_docker_logs, with the copy of the files of copyFails failing, the
\* name lookup of container c ending as lookups[c], and the directory of the
\* containers of dirFails raising.  The attribute temp_files_to_cleanup is
\* assigned only when the loop over the containers has ended; the list is
\* recorded in the order of the identifiers, since cleanup_temp_files treats
\* its paths one by one, whatever their order.
CollectDockerLogs(copyFails, lookups, dirFails) ==
  /\ \E corder \in Orders(ContainerDirs(source)) :
     \E st \in CollectContainers(
                 {[src |-> source, fs |-> local, temps |-> <<>>, out |-> EmptyFs,
                   aborted |-> FALSE]},
                 corder, clock, copyFails, lookups, dirFails) :
       /\ source' = st.src
       /\ local' = st.fs
       /\ temp_files_to_cleanup' =
            IF st.aborted THEN temp_files_to_cleanup
            ELSE SortTemps({st.temps[i] : i \in DOMAIN st.temps})
       /\ last' = [op |-> "collect", repeat |-> last.op = "collect",
                   out |-> st.out, lookups |-> lookups,
                   dirFails |-> dirFails, aborted |-> st.aborted]
  /\ UNCHANGED <<clock, remote>>

\* Every name lookup gives the container's name.
AllNamed == [c \in ContainerDirs(source) |-> "named"]

\* A collection tick in which every lookup, directory and copy succeeds.
Collect == CollectDockerLogs({}, AllNamed, {}) /\ UNCHANGED main

\* A collection tick in which the copy of at most one source file fails.
CollectFaulty ==
  \E copyFails \in {{}} \cup {{cf} : cf \in DOMAIN source} :
    CollectDockerLogs(copyFails, AllNamed, {}) /\ UNCHANGED main

\* A collection tick with any result of the name lookups, in which the
\* directory of at most one container raises.  The lookup of a container
\* ends in a tick as it ended in the tick before.
CollectAny ==
  \E lookups \in [ContainerDirs(source) -> LookupResults] :
  \E dirFails \in {{}} \cup {{c} : c \in ContainerDirs(source)} :
    /\ last.op = "collect" => lookups = last.lookups
    /\ CollectDockerLogs({}, lookups, dirFails)
    /\ UNCHANGED main

(***************************************************************************)
(* upload_to_s3, cleanup_temp_files, cleanup_temp_logs, cleanup_old_logs   *)
(* and the upload step of main's loop.                                     *)
(***************************************************************************)
\* socket.gethostname(): the host's name, a string of characters.
Hostname == <<"h">>

\* f"{self.hostname}/{relative_path}.gz"
S3Key(p) ==
  [host |-> Hostname, name |-> p.name, date |-> p.date, hh |-> p.hh,
   mm |-> p.mm, kind |-> p.kind]

Gzip(data) == [gz |-> data]

\* The object a put of the compressed data creates in the bucket at instant
\* t: its content and the LastModified and Size the bucket lists for it (the
\* size counted in lines).
S3Object(data, t) ==
  [body |-> Gzip(data), last_modified |-> t, size |-> Len(data)]

\* How the put of upload_to_s3's loop body can end for one file:
\*   ok            the put returns
\*   client_error  the put raises ClientError or NoCredentialsError
\*   other_error   the put raises any other exception
Outcomes == {"ok", "client_error", "other_error"}

\* The place of a name among the names, and of a path among the paths.
NameRank(n) ==
  IF n = EmptyName THEN 0
  ELSE IF n[1] = "name" THEN 2 * n[2] ELSE 2 * n[2] + 1
PathKey(p) == ((NameRank(p.name) * 1000 + p.date) * 24 + p.hh) * 60 + p.mm

RECURSIVE SortPaths(_)
SortPaths(S) ==
  IF S = {} THEN <<>>
  ELSE LET m == CHOOSE x \in S : \A y \in S : PathKey(x) <= PathKey(y)
       IN  <<m>> \o SortPaths(S \ {m})

\* rglob("*_all.log") then rglob("*_errors.log"), each listed in path order.
ListLogFiles(fs) ==
  SortPaths({p \in DOMAIN fs : IsArtifact(p) /\ p.kind = "all"})
    \o SortPaths({p \in DOMAIN fs : IsArtifact(p) /\ p.kind = "errors"})

\* The body of "for log_file_path in log_files" on the running state
\* st = [fs, remote, uploaded_count, log, raised].
UploadOne(st, p, outcome, t) ==
  LET gz == CompressedPath(p)
      \* the compressed copy; its content is what the put sends
      fsC == Put(st.fs, gz, [data |-> <<>>, mtime |-> 0])
      Log(o) == Append(st.log, [path |-> p, key |-> S3Key(p), outcome |-> o])
  IN  IF ~Exists(st.fs, p)
      THEN [st EXCEPT !.log = Log("missing")]
      ELSE CASE outcome = "ok" ->
                  [st EXCEPT !.fs = Remove(fsC, {p, gz}),
                             !.remote = Put(st.remote, S3Key(p),
                                            S3Object(st.fs[p].data, t)),
                             !.uploaded_count = @ + 1,
                             !.log = Log(outcome)]
             [] outcome = "client_error" ->
                  [st EXCEPT !.fs = Remove(fsC, {gz}), !.log = Log(outcome)]
             [] OTHER ->
                  [st EXCEPT !.fs = fsC, !.log = Log(outcome), !.raised = TRUE]

\* Every way the loop can run over the files from st, the put of each file
\* ending in one of the ways of outs.
RECURSIVE UploadLoop(_, _, _, _)
UploadLoop(st, files, t, outs) ==
  IF files = <<>> \/ st.raised THEN {st}
  ELSE UNION {UploadLoop(next, rest, t, outs) :
                next \in {UploadOne(st, Head(files), o, t) : o \in outs},
                rest \in {Tail(files)}}

\* A cleanup that unlinks the temp files of the list and leaves the rest of
\* the tree.
CleanupTempFilesOnly(st) ==
  [st EXCEPT !.fs = Remove(st.fs, {st.temps[i] : i \in DOMAIN st.temps}),
             !.temps = <<>>]

\* cleanup_temp_files then cleanup_temp_logs: the temp files of the list are
\* unlinked, the list is emptied, and the tree under log_base_dir is removed.
CleanupAfterUpload(st) ==
  [st EXCEPT !.fs = EmptyFs, !.temps = <<>>]

\* upload_to_s3(log_files): the states it can end in.
UploadToS3(fs, rem, temps, files, t, outs) ==
  LET st0 == [fs |-> fs, remote |-> rem, temps |-> temps, uploaded_count |-> 0,
              log |-> <<>>, raised |-> FALSE]
  IN  IF files = <<>> THEN {st0}
      ELSE {IF ~st.raised /\ st.uploaded_count > 0 THEN CleanupAfterUpload(st) ELSE st :
              st \in UploadLoop(st0, files, t, outs)}

MaxAge == MAX_AGE_DAYS * 24 * 3600

\* A sweep that also unlinks the files whose age is exactly max_age.
CleanupFromMaxAge(fs, t) ==
  Remove(fs, {p \in DOMAIN fs : IsArtifact(p) /\ t - fs[p].mtime >= MaxAge})

\* A sweep that unlinks the old _errors.log files only.
CleanupOldErrorLogs(fs, t) ==
  Remove(fs, {p \in DOMAIN fs :
                IsArtifact(p) /\ p.kind = "errors" /\ t - fs[p].mtime > MaxAge})

\* cleanup_old_logs: unlinks the _all.log and _errors.log files whose
\* modification time is more than max_age before now.
CleanupOldLogs(fs, t) ==
  Remove(fs, {p \in DOMAIN fs : IsArtifact(p) /\ t - fs[p].mtime > MaxAge})

\* The upload step of main's loop: list, upload_to_s3, cleanup_old_logs, the
\* puts ending in the ways of outs.
UploadStep(outs) ==
  \E files \in {ListLogFiles(local)} :
      /\ \E st \in UploadToS3(local, remote, temp_files_to_cleanup, files, clock,
                             outs) :
           /\ local' = IF files # <<>> THEN CleanupOldLogs(st.fs, clock) ELSE st.fs
           /\ remote' = st.remote
           /\ temp_files_to_cleanup' = st.temps
           /\ last' = [op |-> "upload", listed |-> files, log |-> st.log,
                       raised |-> st.raised, uploaded_count |-> st.uploaded_count,
                       swept |-> IF files # <<>> THEN st.fs ELSE EmptyFs]
      /\ UNCHANGED <<clock, source>>

\* The upload step at any instant, each put ending in any way.
UploadTick == UploadStep(Outcomes) /\ UNCHANGED main

(***************************************************************************)
(* cleanup_old_s3_logs (docker_log_s3_cleanup.py).                         *)
(***************************************************************************)
\* The default of the days parameter, and the value of the usage example.
DEFAULT_DAYS == 45
ExampleDays == 30
DaysChoices == {ExampleDays, DEFAULT_DAYS}

\* The key as the string the bucket stores: the host's characters, "/" and
\* the components of the relative path.
KeyString(k) == k.host \o <<"/", k.name, "/", k.date, "/", k.hh, k.mm, k.kind>>

StartsWith(str, pre) == Len(pre) <= Len(str) /\ SubSeq(str, 1, Len(pre)) = pre

\* A listing prefix without the closing "/".
HostnameOnly == Hostname

\* prefix = f"{hostname}/"
ListPrefix == Hostname \o <<"/">>

\* The place of a key in the listing of the bucket.
KeyRank(k) ==
  ((Len(k.host) * 10 + NameRank(k.name)) * 1000 + k.date) * 2
    + (IF k.kind = "all" THEN 0 ELSE 1)

RECURSIVE SortKeys(_)
SortKeys(S) ==
  IF S = {} THEN <<>>
  ELSE LET m == CHOOSE x \in S : \A y \in S : KeyRank(x) <= KeyRank(y)
       IN  <<m>> \o SortKeys(S \ {m})

\* The objects list_objects_v2 returns for Prefix=prefix, in listing order,
\* each with its Key, LastModified and Size.
ListObjects(rem, prefix) ==
  LET keys == SortKeys({k \in DOMAIN rem : StartsWith(KeyString(k), prefix)})
  IN  [i \in DOMAIN keys |->
         [Key |-> keys[i], LastModified |-> rem[keys[i]].last_modified,
          Size |-> rem[keys[i]].size]]

\* paginator.paginate: the listing cut in pages of at most PageSize objects;
\* a listing with no object is one page that has no 'Contents'.
RECURSIVE Paginate(_)
Paginate(objs) ==
  IF Len(objs) <= PageSize THEN <<objs>>
  ELSE <<SubSeq(objs, 1, PageSize)>>
         \o Paginate(SubSeq(objs, PageSize + 1, Len(objs)))

\* last_modified < cutoff_date
Before(last_modified, cutoff_date) == last_modified < cutoff_date

\* How delete_object can end for one object:
\*   ok            it returns
\*   client_error  it raises ClientError
\*   other_error   it raises any other exception
DeleteOutcomes == {"ok", "client_error", "other_error"}

\* A loop body that counts the object and its size before the delete call.
SweepObjectCountingFirst(st, obj, cutoff_date, outcome) ==
  LET seen == [st EXCEPT !.scanned_count = @ + 1]
      Log(o) == Append(st.log, [key |-> obj.Key, outcome |-> o])
      counted == [seen EXCEPT !.deleted_count = @ + 1,
                              !.total_size = @ + obj.Size,
                              !.log = Log(outcome)]
  IN  IF ~(obj.LastModified < cutoff_date) THEN seen
      ELSE CASE outcome = "ok" ->
                  [counted EXCEPT !.remote = Remove(st.remote, {obj.Key})]
             [] outcome = "client_error" -> counted
             [] OTHER -> [counted EXCEPT !.raised = TRUE]

\* The body of "for obj in page['Contents']" on the running state
\* st = [remote, scanned_count, deleted_count, total_size, log, raised].
SweepObject(st, obj, cutoff_date, outcome) ==
  LET seen == [st EXCEPT !.scanned_count = @ + 1]
      Log(o) == Append(st.log, [key |-> obj.Key, outcome |-> o])
  IN  IF ~Before(obj.LastModified, cutoff_date) THEN seen
      ELSE CASE outcome = "ok" ->
                  [seen EXCEPT !.remote = Remove(st.remote, {obj.Key}),
                               !.deleted_count = @ + 1,
                               !.total_size = @ + obj.Size,
                               !.log = Log(outcome)]
             [] outcome = "client_error" -> [seen EXCEPT !.log = Log(outcome)]
             [] OTHER -> [seen EXCEPT !.log = Log(outcome), !.raised = TRUE]

\* Every way the loop over the objects of one page can run from st.
RECURSIVE SweepPage(_, _, _)
SweepPage(st, objs, cutoff_date) ==
  IF objs = <<>> \/ st.raised THEN {st}
  ELSE UNION {SweepPage(SweepObject(st, Head(objs), cutoff_date, o),
                        Tail(objs), cutoff_date) : o \in DeleteOutcomes}

\* "for page in paginator.paginate(...)": the loop ends at a page that has
\* no 'Contents'.
RECURSIVE SweepPages(_, _, _)
SweepPages(sts, pages, cutoff_date) ==
  IF pages = <<>> \/ Head(pages) = <<>> THEN sts
  ELSE SweepPages(UNION {SweepPage(st, Head(pages), cutoff_date) : st \in sts},
                  Tail(pages), cutoff_date)

\* What cleanup_old_s3_logs returns from the state its loop ended in.
SweepResult(st) ==
  IF st.raised THEN [success |-> FALSE]
  ELSE [success |-> TRUE, scanned |-> st.scanned_count,
        deleted |-> st.deleted_count, size_freed |-> st.total_size]

\* cleanup_old_s3_logs(days).
CleanupOldS3Logs ==
  /\ \E days \in DaysChoices :
       LET cutoff_date == clock - days * SecondsPerDay
           objs == ListObjects(remote, ListPrefix)
           st0 == [remote |-> remote, scanned_count |-> 0, deleted_count |-> 0,
                   total_size |-> 0, log |-> <<>>, raised |-> FALSE]
       IN  \E st \in SweepPages({st0}, Paginate(objs), cutoff_date) :
             /\ remote' = st.remote
             /\ last' = [op |-> "s3cleanup", days |-> days, listed |-> objs,
                         log |-> st.log, result |-> SweepResult(st)]
  /\ UNCHANGED <<clock, source, local, temp_files_to_cleanup, main>>

(***************************************************************************)
(* The environment.                                                        *)
(***************************************************************************)
Env == [op |-> "env"]

Advance ==
  /\ clock + AdvanceStep <= EndTime
  /\ clock' = clock + AdvanceStep
  /\ last' = Env
  /\ UNCHANGED <<source, local, remote, temp_files_to_cleanup, main>>

RECURSIVE SumLen(_, _)
SumLen(src, S) ==
  IF S = {} THEN 0
  ELSE LET x == CHOOSE y \in S : TRUE IN Len(src[x]) + SumLen(src, S \ {x})

\* The container runtime appends a line of one of `kinds` to one of its log
\* files; the line carries the instant it is written at.
RuntimeWrites(kinds) ==
  /\ SumLen(source, DOMAIN source) < MaxWrites
  /\ \E cf \in DOMAIN source, k \in kinds, s \in Streams :
       /\ k # "rec" => s = "stdout"
       /\ source' = [source EXCEPT ![cf] =
            Append(@, [c |-> cf[1], f |-> cf[2], n |-> Len(@) + 1,
                       kind |-> k, stream |-> s, ts |-> clock])]
  /\ last' = Env
  /\ UNCHANGED <<clock, local, remote, temp_files_to_cleanup, main>>

\* The runtime writes a well-formed record.
DockerWrite == RuntimeWrites({"rec"})

(***************************************************************************)
(* main: the first collection, then the loop.                              *)
(***************************************************************************)
COLLECT_INTERVAL == 2 * 60
UPLOAD_INTERVAL == 1 * 3600
\* time.sleep(30) at the end of an iteration.
SLEEP_SECONDS == 30

\* main's locals before main runs.  Besides the locals, the record keeps
\* the place main has reached (pc) and the instants at which the last
\* collection tick and the last upload step were started (0: none yet).
NotStarted ==
  [pc |-> "off", current_time |-> 0, last_collect_time |-> 0,
   last_upload_time |-> 0, collect_started |-> 0, upload_started |-> 0]

\* main's locals once they are initialised, before the first collection.
MainStarts == [NotStarted EXCEPT !.pc = "first_collect"]

\* service.collect_docker_logs() before the loop.
FirstCollect ==
  /\ main.pc = "first_collect"
  /\ CollectDockerLogs({}, AllNamed, {})
  /\ main' = [main EXCEPT !.pc = "first_collected", !.collect_started = clock]

\* The first collection returns after one of the durations ds, and
\* last_collect_time = time.time().
FirstCollectReturns(ds) ==
  /\ main.pc = "first_collected"
  /\ \E d \in ds :
       /\ clock' = clock + d
       /\ main' = [main EXCEPT !.pc = "loop", !.last_collect_time = clock + d]
  /\ UNCHANGED <<source, local, remote, temp_files_to_cleanup, last>>

\* current_time - last_collect_time >= COLLECT_INTERVAL
CollectDue(m) == m.current_time - m.last_collect_time >= COLLECT_INTERVAL

\* An upload is due every collection interval.
UploadDueEveryCollect(m) == m.current_time - m.last_upload_time >= COLLECT_INTERVAL

\* current_time - last_upload_time >= UPLOAD_INTERVAL
UploadDue(m) == m.current_time - m.last_upload_time >= UPLOAD_INTERVAL

\* The head of an iteration: current_time = time.time(), then the
\* collection tick if it is due, last_collect_time being set to current_time.
LoopCollect ==
  /\ main.pc = "loop"
  /\ LET m == [main EXCEPT !.current_time = clock]
     IN  IF CollectDue(m)
         THEN /\ CollectDockerLogs({}, AllNamed, {})
              /\ main' = [m EXCEPT !.pc = "collected", !.last_collect_time = clock,
                                   !.collect_started = clock]
         ELSE /\ main' = [m EXCEPT !.pc = "upload"]
              /\ UNCHANGED <<clock, source, local, remote, temp_files_to_cleanup,
                             last>>

\* The collection tick of the iteration returns after one of the durations.
CollectReturns(ds) ==
  /\ main.pc = "collected"
  /\ \E d \in ds : clock' = clock + d
  /\ main' = [main EXCEPT !.pc = "upload"]
  /\ UNCHANGED <<source, local, remote, temp_files_to_cleanup, last>>

\* The upload step of the iteration if it is due, last_upload_time being set
\* to current_time.  The puts of one pass all end in the same way, one of
\* outs.
LoopUpload(outs) ==
  /\ main.pc = "upload"
  /\ IF UploadDue(main)
     THEN /\ \E o \in outs : UploadStep({o})
          /\ main' = [main EXCEPT !.pc = "uploaded",
                                  !.last_upload_time = main.current_time,
                                  !.upload_started = clock]
     ELSE /\ main' = [main EXCEPT !.pc = "sleep"]
          /\ UNCHANGED <<clock, source, local, remote, temp_files_to_cleanup,
                         last>>

\* The upload step returns after one of the durations.
UploadReturns(ds) ==
  /\ main.pc = "uploaded"
  /\ \E d \in ds : clock' = clock + d
  /\ main' = [main EXCEPT !.pc = "sleep"]
  /\ UNCHANGED <<source, local, remote, temp_files_to_cleanup, last>>

\* time.sleep(30), as long as the run has not reached the instant `until`.
Sleep(until) ==
  /\ main.pc = "sleep"
  /\ clock + SLEEP_SECONDS <= until
  /\ clock' = clock + SLEEP_SECONDS
  /\ main' = [main EXCEPT !.pc = "loop"]
  /\ UNCHANGED <<source, local, remote, temp_files_to_cleanup, last>>

Init ==
  /\ clock = StartTime
  /\ source = [cf \in OneContainer |-> <<>>]
  /\ local = EmptyFs
  /\ remote = EmptyFs
  /\ temp_files_to_cleanup = <<>>
  /\ last = Env
  /\ main = NotStarted

Next == Collect \/ UploadTick \/ Advance \/ DockerWrite

Spec == Init /\ [][Next]_vars

\* Collection alone, with failing copies.
NextCollect == CollectFaulty \/ Advance \/ DockerWrite

CollectSpec == Init /\ [][NextCollect]_vars

\* The parse-and-filter loop on any content of a source file: the first file
\* holds up to MaxLines lines of any kind, the records timed one second
\* before the cutoff or at it, and collection ticks run at StartTime.
LineShapes ==
  {[kind |-> "rec", stream |-> s, ts |-> t] :
     s \in Streams, t \in {StartTime - ONE_HOUR - 1, StartTime - ONE_HOUR}}
    \cup {[kind |-> k, stream |-> "stdout", ts |-> 0] : k \in AllKinds \ {"rec"}}

FileContents ==
  UNION {[1..n -> LineShapes] : n \in 0..MaxLines}

InitParse ==
  /\ clock = StartTime
  /\ \E shapes \in FileContents :
       source = [cf \in OneContainer |->
                   IF cf = <<1, 1>>
                   THEN [i \in DOMAIN shapes |->
                           [c |-> 1, f |-> 1, n |-> i, kind |-> shapes[i].kind,
                            stream |-> shapes[i].stream, ts |-> shapes[i].ts]]
                   ELSE <<>>]
  /\ local = EmptyFs
  /\ remote = EmptyFs
  /\ temp_files_to_cleanup = <<>>
  /\ last = Env
  /\ main = NotStarted

NextParse == Collect

ParseSpec == InitParse /\ [][NextParse]_vars

\* The whole service over one source file.
OneFile == {<<1, 1>>}

InitOneFile ==
  /\ clock = StartTime
  /\ source = [cf \in OneFile |-> <<>>]
  /\ local = EmptyFs
  /\ remote = EmptyFs
  /\ temp_files_to_cleanup = <<>>
  /\ last = Env
  /\ main = NotStarted

NextOneFile == Collect \/ UploadTick \/ Advance \/ DockerWrite

OneFileSpec == InitOneFile /\ [][NextOneFile]_vars

\* Collection over two container directories of one file each, with any
\* result of the name lookups and failing directories.
TwoContainers == {<<1, 1>>, <<2, 1>>}

\* What a file holds at the start: nothing, or one record written at the
\* start.
OneRecord(cf, s) ==
  <<[c |-> cf[1], f |-> cf[2], n |-> 1, kind |-> "rec", stream |-> s,
     ts |-> StartTime]>>

InitContainers ==
  /\ clock = StartTime
  /\ \E full \in SUBSET TwoContainers, s \in Streams :
       source = [cf \in TwoContainers |->
                   IF cf \in full THEN OneRecord(cf, s) ELSE <<>>]
  /\ local = EmptyFs
  /\ remote = EmptyFs
  /\ temp_files_to_cleanup = <<>>
  /\ last = Env
  /\ main = NotStarted

NextContainers == CollectAny

ContainersSpec == InitContainers /\ [][NextContainers]_vars

\* Collection ticks and upload steps over the same source files, which
\* nothing writes to in the meantime.
NextService == Collect \/ UploadTick

ServiceSpec == InitContainers /\ [][NextService]_vars

\* The upload step of main's loop over a local directory that holds files
\* of several ages: artifacts whose puts failed in the passes of the days
\* before, written 8 days, 7 days and a second, 7 days, and 6 days before
\* the instant of the pass, and a temporary copy.
SweepNow == 10 * SecondsPerDay + StartTime

SweepAges ==
  {8 * SecondsPerDay, MAX_AGE_DAYS * SecondsPerDay + 1,
   MAX_AGE_DAYS * SecondsPerDay, 6 * SecondsPerDay}

\* The artifact a tick at instant m wrote for the first container.
OldArtifact(kind, m) ==
  ArtifactPath(DockerName(1), DateStr(m), TimeStr(m), kind)

OldArtifacts ==
  {[path |-> OldArtifact("all", SweepNow - a), mtime |-> SweepNow - a] :
     a \in SweepAges}
    \cup {[path |-> OldArtifact("errors", SweepNow - a), mtime |-> SweepNow - a] :
            a \in {8 * SecondsPerDay, 6 * SecondsPerDay}}

OldTemp == TempPath(DockerName(1), DateStr(SweepNow - 8 * SecondsPerDay), 1, 1)

OldLine(m) ==
  [c |-> 1, f |-> 1, n |-> 1, kind |-> "rec", stream |-> "stderr", ts |-> m]

InitSweep ==
  /\ clock = SweepNow
  /\ source = [cf \in OneFile |-> <<>>]
  /\ \E olds \in SUBSET OldArtifacts, temps \in SUBSET {OldTemp} :
       local = [p \in {o.path : o \in olds} \cup temps |->
                  IF p \in temps
                  THEN [data |-> <<>>, mtime |-> SweepNow - 8 * SecondsPerDay]
                  ELSE LET o == CHOOSE x \in olds : x.path = p
                       IN  [data |-> <<OldLine(o.mtime)>>, mtime |-> o.mtime]]
  /\ remote = EmptyFs
  /\ temp_files_to_cleanup = <<>>
  /\ last = Env
  /\ main = NotStarted

NextSweep == UploadTick

SweepSpec == InitSweep /\ [][NextSweep]_vars

\* cleanup_old_s3_logs over a bucket that holds objects of this host and of
\* another whose name starts with this host's name, last modified one second
\* before the cutoff of the default days, at it, and at the cutoff of the
\* example's days.
RemoteSweepNow == (DEFAULT_DAYS + 1) * SecondsPerDay + StartTime

OtherHost == Hostname \o <<"2">>

BucketKey(h, d, k) ==
  [host |-> h, name |-> DockerName(1), date |-> d, hh |-> 23, mm |-> 0,
   kind |-> k]

BucketKeys ==
  {BucketKey(Hostname, 0, "all"), BucketKey(Hostname, 0, "errors"),
   BucketKey(Hostname, 1, "all"), BucketKey(OtherHost, 0, "all")}

LastModifiedChoices ==
  {RemoteSweepNow - DEFAULT_DAYS * SecondsPerDay - 1,
   RemoteSweepNow - DEFAULT_DAYS * SecondsPerDay,
   RemoteSweepNow - ExampleDays * SecondsPerDay}

BucketObjects ==
  {[body |-> Gzip(<<>>), last_modified |-> m, size |-> n] :
     m \in LastModifiedChoices, n \in {1, 2}}

InitRemoteSweep ==
  /\ clock = RemoteSweepNow
  /\ source = [cf \in OneFile |-> <<>>]
  /\ local = EmptyFs
  /\ \E keys \in SUBSET BucketKeys : remote \in [keys -> BucketObjects]
  /\ temp_files_to_cleanup = <<>>
  /\ last = Env
  /\ main = NotStarted

NextRemoteSweep == CleanupOldS3Logs

RemoteSweepSpec == InitRemoteSweep /\ [][NextRemoteSweep]_vars

\* main over one source file that holds a record written at the start.  A
\* collection tick or an upload step takes no time or as long as a sleep,
\* and the puts of a pass succeed or fail.  The run is followed for a little
\* more than MaxHours upload intervals.
MaxHours == 2

Durations == {0, SLEEP_SECONDS}

SchedulerEnd == StartTime + MaxHours * UPLOAD_INTERVAL + 2 * SLEEP_SECONDS

InitScheduler ==
  /\ clock = StartTime
  /\ source = [cf \in OneFile |-> OneRecord(cf, "stdout")]
  /\ local = EmptyFs
  /\ remote = EmptyFs
  /\ temp_files_to_cleanup = <<>>
  /\ last = Env
  /\ main = MainStarts

NextScheduler ==
  \/ FirstCollect
  \/ FirstCollectReturns(Durations)
  \/ LoopCollect
  \/ CollectReturns(Durations)
  \/ LoopUpload(Outcomes)
  \/ UploadReturns(Durations)
  \/ Sleep(SchedulerEnd)

SchedulerSpec == InitScheduler /\ [][NextScheduler]_vars

\* main started over a local directory that holds artifacts whose puts
\* failed in the passes of the days before and which reach the age of the
\* sweep half an hour and an hour and a half after the start, or reached it
\* a minute before; the source file is empty or holds a record that leaves
\* the window of the ticks after the first minutes.  Every put of every
\* pass fails.  The loop keeps running:
\* each of its steps is taken once it can be.
LifetimeAges ==
  {MaxAge - UPLOAD_INTERVAL \div 2, MaxAge - 3 * (UPLOAD_INTERVAL \div 2),
   MaxAge + 60}

LifetimeArtifacts ==
  {[path |-> OldArtifact("all", SweepNow - a), mtime |-> SweepNow - a] :
     a \in LifetimeAges}
    \cup {[path |-> OldArtifact("errors", SweepNow - a), mtime |-> SweepNow - a] :
            a \in {MaxAge - UPLOAD_INTERVAL \div 2}}

LifetimeEnd == SweepNow + 2 * UPLOAD_INTERVAL + 4 * SLEEP_SECONDS

FailedPuts == Outcomes \ {"ok"}

InitLifetime ==
  /\ clock = SweepNow
  /\ \E recs \in {<<>>, <<OldLine(SweepNow - UPLOAD_INTERVAL + 2 * COLLECT_INTERVAL)>>} :
       source = [cf \in OneFile |-> recs]
  /\ \E olds \in SUBSET LifetimeArtifacts :
       local = [p \in {o.path : o \in olds} |->
                  LET o == CHOOSE x \in olds : x.path = p
                  IN  [data |-> <<OldLine(o.mtime)>>, mtime |-> o.mtime]]
  /\ remote = EmptyFs
  /\ temp_files_to_cleanup = <<>>
  /\ last = Env
  /\ main = MainStarts

NextLifetime ==
  \/ FirstCollect
  \/ FirstCollectReturns(Durations)
  \/ LoopCollect
  \/ CollectReturns(Durations)
  \/ LoopUpload(FailedPuts)
  \/ UploadReturns(Durations)
  \/ Sleep(LifetimeEnd)

LifetimeSpec == InitLifetime /\ [][NextLifetime]_vars /\ WF_vars(NextLifetime)
(***************************************************************************)
(* Notions the claims are stated with.                                     *)
(***************************************************************************)
IsPrefix(a, b) == Len(a) <= Len(b) /\ SubSeq(b, 1, Len(a)) = a
NoDup(q) == \A i, j \in DOMAIN q : i # j => q[i] # q[j]
Range(q) == {q[i] : i \in DOMAIN q}

Artifacts(fs) == {p \in DOMAIN fs : IsArtifact(p)}
\* The artifact is one a collection tick at instant t writes to.
OfTick(p, t) == p.date = DateStr(t) /\ <<p.hh, p.mm>> = TimeStr(t)

RECURSIVE OutputLen(_, _, _)
\* The number of lines the files of S contributed to artifact p in a tick
\* whose record is out.
OutputLen(out, S, p) ==
  IF S = {} THEN 0
  ELSE LET cf == CHOOSE x \in S : TRUE
           n == IF out[cf].status = "ok" /\ out[cf].name = p.name
                THEN IF p.kind = "all" THEN Len(out[cf].all_logs)
                     ELSE Len(out[cf].error_logs)
                ELSE 0
       IN  n + OutputLen(out, S \ {cf}, p)

PutsOk(log) == {log[i].path : i \in {j \in DOMAIN log : log[j].outcome = "ok"}}
PutsTried(log) ==
  {log[i].path : i \in {j \in DOMAIN log : log[j].outcome # "missing"}}

\* The grace window of the upload: the first minutes of an hour.  Its length
\* is taken as five minutes; the instants of the model are on the hour or 30
\* and 45 minutes past it.
InGraceWindow(t) == MinuteOf(t) < 5

\* The bucket of the hour before t: <<date, hour>>, the date one less when
\* the hour of t is 0.
PreviousHourBucket(t) ==
  IF HourOf(t) = 0 THEN <<DateStr(t) - 1, 23>> ELSE <<DateStr(t), HourOf(t) - 1>>

\* The claim's filter, stated on the source lines.
ValidRecent(line, cutoff) == line.kind = "rec" /\ line.ts >= cutoff
RecentRecords(lines, cutoff) ==
  LET Test(l) == ValidRecent(l, cutoff) IN SelectSeq(lines, Test)

\* What the tick harvested from a file: the list it built, when the loop
\* over the file's lines ran to its end.
Harvested(o) == IF o.status = "ok" THEN o.all_logs ELSE <<>>

\* The lines of a file, none when there is no file.
FileData(fs, p) == IF p \in DOMAIN fs THEN fs[p].data ELSE <<>>

\* The window of an artifact: its container, date and hour.
WindowOf(p) == <<p.name, p.date, p.hh>>

\* The log entries of the puts an upload pass tried.
PutEntries(log) == {log[i] : i \in {j \in DOMAIN log : log[j].outcome # "missing"}}

\* The age above which the local sweep is to delete.
SweepThreshold == MAX_AGE_DAYS * SecondsPerDay

\* The objects of a listing that are older than the cutoff of the sweep.
OlderListed(listed, cutoff) ==
  {listed[i].Key : i \in {j \in DOMAIN listed : listed[j].LastModified < cutoff}}
DeletesTried(log) == {log[i].key : i \in DOMAIN log}
DeletesFailed(log) == {log[i].key : i \in {j \in DOMAIN log : log[j].outcome # "ok"}}

\* The local files when the upload pass of an upload step had returned,
\* before the local sweep; loc is the local directory after the step.
AfterPass(l, loc) == IF l.listed = <<>> THEN loc ELSE l.swept

\* The keys of the objects whose delete call returned.
DeletesOk(log) == {log[i].key : i \in {j \in DOMAIN log : log[j].outcome = "ok"}}

\* The sum of the sizes of the listed objects whose key is in keys.
RECURSIVE SumSizes(_, _)
SumSizes(listed, keys) ==
  IF listed = <<>> THEN 0
  ELSE (IF Head(listed).Key \in keys THEN Head(listed).Size ELSE 0)
         + SumSizes(Tail(listed), keys)

\* The lines of the object of a key.
Delivered(rem, k) == Range(rem[k].body.gz)

\* A step of main that starts a collection tick, or an upload step.
StartsCollect == main'.collect_started # main.collect_started
StartsUpload == main.pc = "upload" /\ main'.pc = "uploaded"

\* The first upload step runs in the first iteration, before any collection
\* tick but the one before the loop.
FirstUploadAtOnce ==
  (main.pc = "upload" /\ main.upload_started = 0) =>
    /\ StartsUpload
    /\ last'.op = "upload"
    /\ main.collect_started = StartTime
    /\ main.current_time = main.last_collect_time

\* Two collection ticks are started at least the collection interval apart.
CollectsApart ==
  (StartsCollect /\ main.collect_started # 0) =>
    main'.collect_started - main.collect_started >= COLLECT_INTERVAL

\* Two upload steps are started at least d seconds apart.
UploadsApart(d) ==
  (StartsUpload /\ main.upload_started # 0) =>
    main'.upload_started - main.upload_started >= d

\* The readings of the time at which two upload steps are decided are at
\* least the upload interval apart.
UploadReadingsApart ==
  (StartsUpload /\ main.upload_started # 0) =>
    main'.last_upload_time - main.last_upload_time >= UPLOAD_INTERVAL

\* An upload step of an iteration whose collection tick was due starts
\* when that tick has returned.
CollectBeforeUpload ==
  (StartsUpload /\ main.collect_started >= main.current_time) =>
    /\ last.op = "collect"
    /\ main.collect_started <= clock
    /\ main'.upload_started = clock

\* The artifacts of fs whose age at instant t is over the sweep's threshold.
Stale(fs, t) == {p \in Artifacts(fs) : t - fs[p].mtime > SweepThreshold}

\* The longest an operation of main's loop takes.
LongestDuration == CHOOSE d \in Durations : \A e \in Durations : e <= d

\* The paths of the artifacts the local directory can hold at the start.
LifetimePaths == {o.path : o \in LifetimeArtifacts}

(***************************************************************************)
(* C1.  For collection ticks that target the same window, the artifact is  *)
(* the ordered concatenation of the ticks' filtered outputs: a tick only   *)
(* appends to an existing artifact, it never truncates, removes or         *)
(* reorders the lines an earlier tick wrote.                               *)
(***************************************************************************)
C1_AppendOnly ==
  [][last'.op = "collect" =>
       /\ \A p \in Artifacts(local) :
            p \in DOMAIN local' /\ IsPrefix(local[p].data, local'[p].data)
       /\ \A p \in Artifacts(local') :
            OfTick(p, clock) =>
              Len(local'[p].data) =
                (IF p \in DOMAIN local THEN Len(local[p].data) ELSE 0)
                  + OutputLen(last'.out, DOMAIN last'.out, p)]_vars

(***************************************************************************)
(* C2.  Upload atomicity: at the end of an upload pass a local plaintext   *)
(* artifact has been deleted if and only if the put for its own key        *)
(* returned success within that pass.                                      *)
(***************************************************************************)
C2_UploadAtomicity ==
  [][last'.op = "upload" =>
       \A p \in Artifacts(local) :
         (p \notin DOMAIN local') <=> (p \in PutsOk(last'.log))]_vars

(***************************************************************************)
(* C3.  Idempotent harvest: after the collection tick has run twice at the *)
(* same instant (the same cutoff) over unchanged source files, no line     *)
(* occurs twice in an artifact of the tick's window.                       *)
(***************************************************************************)
C3_NoDuplicates ==
  (last.op = "collect" /\ last.repeat) =>
    \A p \in Artifacts(local) : OfTick(p, clock) => NoDup(local[p].data)

\* The tick has run twice in a row and the window's artifact holds two lines.
C3_Witness ==
  /\ last.op = "collect" /\ last.repeat
  /\ \E p \in Artifacts(local) : OfTick(p, clock) /\ Len(local[p].data) >= 2

(***************************************************************************)
(* C4.  Stream partition: in every reachable local state, every line of    *)
(* the _errors artifact of a window is also in the _all artifact of the    *)
(* same window.                                                            *)
(***************************************************************************)
C4_ErrorsWithinAll ==
  \A p \in Artifacts(local) :
    p.kind = "errors" =>
      LET a == [p EXCEPT !.kind = "all"]
      IN  /\ a \in DOMAIN local
          /\ Range(local[p].data) \subseteq Range(local[a].data)

(***************************************************************************)
(* C5.  Temp-file cleanup: when a collection tick has returned, no         *)
(* temporary copy of a source log file exists locally.                     *)
(***************************************************************************)
C5_NoTempAfterTick ==
  last.op = "collect" => \A p \in DOMAIN local : ~IsTemp(p)

(***************************************************************************)
(* C6.  Grace-window gate: an upload tick that fires outside the grace     *)
(* window at the start of an hour is a no-op: it issues no put and deletes *)
(* no local file.                                                          *)
(***************************************************************************)
C6_GraceWindowGate ==
  [][(last'.op = "upload" /\ ~InGraceWindow(clock)) =>
       /\ PutsTried(last'.log) = {}
       /\ remote' = remote
       /\ DOMAIN local \subseteq DOMAIN local']_vars

(***************************************************************************)
(* C7.  Closed windows only: an upload pass puts and deletes only          *)
(* artifacts of the previous-hour bucket (the date decremented when the    *)
(* hour is 0), never an artifact of the current hour.                      *)
(***************************************************************************)
C7_ClosedWindowsOnly ==
  [][last'.op = "upload" =>
       \A p \in Artifacts(local) :
         (p \in PutsTried(last'.log) \/ p \notin DOMAIN local') =>
           <<p.date, p.hh>> = PreviousHourBucket(clock)]_vars

(***************************************************************************)
(* C8.  Per-item isolation: in one upload pass a failure for one artifact  *)
(* does not keep the pass from attempting the put of every later artifact  *)
(* of its list.                                                            *)
(***************************************************************************)
C8_PerItemIsolation ==
  last.op = "upload" => Range(last.listed) \subseteq PutsTried(last.log)

(***************************************************************************)
(* C9.  Harvest filter: the lines a tick harvests from a source file are   *)
(* exactly its lines that are JSON records with a parseable timestamp at   *)
(* or after the cutoff, in source order; the other lines are skipped and   *)
(* the lines after them are still processed.                               *)
(***************************************************************************)
C9_HarvestFilter ==
  last.op = "collect" =>
    \A cf \in DOMAIN last.out :
      last.out[cf].status # "copy_error" =>
        Harvested(last.out[cf]) = RecentRecords(source[cf], clock - ONE_HOUR)

(***************************************************************************)
(* C10.  No loss on partial parse failure: when the processing of a line   *)
(* of a file fails, the records kept from the earlier lines of the file    *)
(* are still written to the window's artifact by that tick.                *)
(***************************************************************************)
C10_NoLossOnPartialFailure ==
  last.op = "collect" =>
    \A cf \in DOMAIN last.out :
      last.out[cf].status = "raised" =>
        \A l \in Range(last.out[cf].all_logs) :
          LET p == ArtifactPath(last.out[cf].name, DateStr(clock),
                                TimeStr(clock), "all")
          IN  p \in DOMAIN local /\ l \in Range(local[p].data)

(***************************************************************************)
(* C11.  Stream classification: after one collection tick over a single    *)
(* source file into an empty window, the _all artifact holds exactly the   *)
(* file's records at or after the cutoff, of every stream, and the _errors *)
(* artifact exactly those of them whose stream is stderr, in source order. *)
(***************************************************************************)
C11_StreamClassification ==
  (last.op = "collect" /\ ~last.repeat) =>
    \A cf \in DOMAIN last.out :
      (\A cg \in DOMAIN source : cg # cf => source[cg] = <<>>) =>
        LET kept == RecentRecords(source[cf], clock - ONE_HOUR)
            name == last.out[cf].name
            pAll == ArtifactPath(name, DateStr(clock), TimeStr(clock), "all")
            pErr == ArtifactPath(name, DateStr(clock), TimeStr(clock), "errors")
        IN  /\ FileData(local, pAll) = kept
            /\ FileData(local, pErr) = SelectSeq(kept, IsStderr)

(***************************************************************************)
(* C12.  One artifact pair per window: in every local state there is, for  *)
(* each container, date and hour, at most one _all artifact and at most    *)
(* one _errors artifact.                                                   *)
(***************************************************************************)
C12_OnePairPerWindow ==
  \A p, q \in Artifacts(local) :
    (WindowOf(p) = WindowOf(q) /\ p.kind = q.kind) => p = q

(***************************************************************************)
(* C13.  Remote key mapping: the keys of the puts of an upload pass depend *)
(* only on the host, the container name, the date, the hour and the kind   *)
(* of the artifact, and two different artifacts never get the same key.    *)
(***************************************************************************)
C13_KeyInjectiveAndPure ==
  last.op = "upload" =>
    \A a, b \in PutEntries(last.log) :
      /\ (WindowOf(a.path) = WindowOf(b.path) /\ a.path.kind = b.path.kind)
            => a.key = b.key
      /\ a.path # b.path => a.key # b.key

(***************************************************************************)
(* C14.  Remote key layout: every key passed to a put is made of the       *)
(* host, the container name, the date, the hour with the minute part 00,   *)
(* and the kind all or errors, whatever the minute the artifact was        *)
(* created at.                                                             *)
(***************************************************************************)
C14_KeyLayout ==
  last.op = "upload" =>
    \A a \in PutEntries(last.log) :
      /\ a.key.host = Hostname
      /\ a.key.name = a.path.name /\ a.key.date = a.path.date
      /\ a.key.hh = a.path.hh /\ a.key.kind \in {"all", "errors"}
      /\ a.key.mm = 0

(***************************************************************************)
(* C15.  Local sweep threshold: the local sweep of an upload step deletes  *)
(* an artifact (_all or _errors) that the upload pass left in place if and *)
(* only if its modification age is greater than 7 days: one 8 days old is  *)
(* deleted, one 6 days old, or exactly 7 days old, is retained.            *)
(***************************************************************************)
C15_LocalSweepThreshold ==
  (last.op = "upload" /\ last.listed # <<>>) =>
    \A p \in Artifacts(last.swept) :
      (p \notin DOMAIN local) <=> (clock - last.swept[p].mtime > SweepThreshold)

\* The sweep ran over artifacts whose puts had failed: it deleted one 8 days
\* old and retained one exactly 7 days old and one 6 days old.
C15_Witness ==
  /\ last.op = "upload" /\ last.listed # <<>>
  /\ \E p, q, r \in Artifacts(last.swept) :
       /\ clock - last.swept[p].mtime = 8 * SecondsPerDay /\ p \notin DOMAIN local
       /\ clock - last.swept[q].mtime = 6 * SecondsPerDay /\ q \in DOMAIN local
       /\ clock - last.swept[r].mtime = SweepThreshold /\ r \in DOMAIN local

(***************************************************************************)
(* C16.  Remote sweep selection: a remote sweep in which no delete fails   *)
(* deletes exactly the objects of the bucket that belong to this host and  *)
(* were last modified before now minus the configured days; the objects of *)
(* other hosts and those modified at or after the cutoff stay as they are. *)
(***************************************************************************)
C16_RemoteSweepSelection ==
  [][(last'.op = "s3cleanup" /\ DeletesFailed(last'.log) = {}) =>
       /\ DOMAIN remote' =
            {k \in DOMAIN remote :
               ~(k.host = Hostname
                   /\ remote[k].last_modified < clock - last'.days * SecondsPerDay)}
       /\ \A k \in DOMAIN remote' : remote'[k] = remote[k]]_vars

\* A sweep without failure over two pages deleted an object and left one
\* modified at the cutoff and an older one of the other host.
C16_Witness ==
  /\ last.op = "s3cleanup" /\ DeletesFailed(last.log) = {}
  /\ last.result.success /\ last.result.deleted >= 1
  /\ Len(last.listed) > PageSize
  /\ \E i \in DOMAIN last.listed :
       /\ last.listed[i].LastModified = clock - last.days * SecondsPerDay
       /\ last.listed[i].Key \in DOMAIN remote
  /\ \E k \in DOMAIN remote :
       /\ k.host = OtherHost
       /\ remote[k].last_modified < clock - last.days * SecondsPerDay

(***************************************************************************)
(* C17.  Remote sweep tolerance: when the delete of an object fails, for   *)
(* any kind of error, the sweep still attempts the delete of every listed  *)
(* object older than the cutoff and returns a summary.                     *)
(***************************************************************************)
C17_RemoteSweepTolerance ==
  last.op = "s3cleanup" =>
    /\ last.result.success
    /\ OlderListed(last.listed, clock - last.days * SecondsPerDay)
          \subseteq DeletesTried(last.log)

(***************************************************************************)
(* C18.  Name-lookup fallback: whatever the result of the name lookups, a  *)
(* tick in which no directory raises harvests every container, under a     *)
(* name that is not empty, and two different containers never write into   *)
(* the same local directory.                                               *)
(***************************************************************************)
C18_NameLookupFallback ==
  last.op = "collect" =>
    /\ last.dirFails = {} => DOMAIN last.out = DOMAIN source
    /\ \A cf \in DOMAIN last.out : last.out[cf].name # EmptyName
    /\ \A cf, cg \in DOMAIN last.out :
         cf[1] # cg[1] => last.out[cf].name # last.out[cg].name

(***************************************************************************)
(* C19.  Collection isolation: in a collection tick, the source files of   *)
(* every container whose own directory did not raise are processed,        *)
(* whatever happened to the other containers.                              *)
(***************************************************************************)
C19_CollectionIsolation ==
  last.op = "collect" =>
    \A cf \in DOMAIN source : cf[1] \notin last.dirFails => cf \in DOMAIN last.out

(***************************************************************************)
(* C20.  Source files are untouched: a collection tick and an upload step  *)
(* (the upload pass, the cleanup of the temporary files, the emptying of   *)
(* the local directory and the local sweep) leave every source log file as *)
(* it was.                                                                 *)
(***************************************************************************)
C20_SourceUntouched ==
  [][last'.op \in {"collect", "upload"} => source' = source]_vars

\* An upload pass has put an artifact and emptied the local directory, and
\* the source file still holds its lines.
C20_Witness ==
  /\ last.op = "upload" /\ last.uploaded_count > 0
  /\ local = EmptyFs
  /\ \E cf \in DOMAIN source : source[cf] # <<>>

(***************************************************************************)
(* C21.  Compressed transient cleanup: when an upload pass has returned,   *)
(* the compressed copy of every artifact it processed no longer exists     *)
(* locally, whether the put succeeded or failed, for any kind of error.    *)
(***************************************************************************)
C21_NoCompressedAfterPass ==
  last.op = "upload" =>
    \A p \in PutsTried(last.log) :
      /\ CompressedPath(p) \notin DOMAIN AfterPass(last, local)
      /\ CompressedPath(p) \notin DOMAIN local

(***************************************************************************)
(* C23.  Local sweep of temporary files: after the local sweep of an       *)
(* upload step, no temporary copy of a source file whose age exceeds the   *)
(* threshold remains locally.                                              *)
(***************************************************************************)
C23_SweepDeletesOldTemps ==
  (last.op = "upload" /\ last.listed # <<>>) =>
    \A p \in DOMAIN last.swept :
      (IsTemp(p) /\ clock - last.swept[p].mtime > SweepThreshold)
        => p \notin DOMAIN local

(***************************************************************************)
(* C24.  Remote sweep report: in the summary of a completed remote sweep,  *)
(* scanned is the number of objects listed, deleted the number of objects  *)
(* whose delete call succeeded and size_freed the sum of the sizes of      *)
(* exactly those objects; an object whose delete failed is counted in      *)
(* neither.                                                                *)
(***************************************************************************)
C24_RemoteSweepReport ==
  (last.op = "s3cleanup" /\ last.result.success) =>
    /\ last.result.scanned = Len(last.listed)
    /\ last.result.deleted = Cardinality(DeletesOk(last.log))
    /\ last.result.size_freed = SumSizes(last.listed, DeletesOk(last.log))

\* A completed sweep over two pages in which a delete failed and two
\* succeeded, on objects of different sizes.
C24_Witness ==
  /\ last.op = "s3cleanup" /\ last.result.success
  /\ Len(last.listed) > PageSize
  /\ DeletesFailed(last.log) # {}
  /\ last.result.deleted = 2
  /\ last.result.size_freed = 3

(***************************************************************************)
(* C25.  At-most-one handoff: a harvested record is delivered to the       *)
(* remote store at most once per kind: no two objects of the bucket, of    *)
(* the same kind and under different keys, hold the same record.           *)
(***************************************************************************)
C25_AtMostOneHandoff ==
  \A k1, k2 \in DOMAIN remote :
    (k1 # k2 /\ k1.kind = k2.kind) =>
      Delivered(remote, k1) \cap Delivered(remote, k2) = {}

(***************************************************************************)
(* C26.  An upload pass that completes its loop with at least one          *)
(* successful put leaves the local base directory empty when it returns:   *)
(* no artifact, no temporary copy, no compressed file, not even the        *)
(* plaintext of the artifacts whose put failed; a pass that completes with *)
(* no successful put leaves every plaintext artifact and temporary copy in *)
(* place.                                                                  *)
(***************************************************************************)
C26_EmptiedAfterSuccess ==
  [][(last'.op = "upload" /\ ~last'.raised) =>
       /\ last'.uploaded_count > 0 =>
            (AfterPass(last', local') = EmptyFs /\ local' = EmptyFs)
       /\ last'.uploaded_count = 0 =>
            \A p \in DOMAIN local :
              (IsArtifact(p) \/ IsTemp(p)) =>
                /\ p \in DOMAIN AfterPass(last', local')
                /\ AfterPass(last', local')[p] = local[p]]_vars

\* A pass completed with one put that succeeded and one that failed, and
\* the local directory is empty.
C26_Witness ==
  /\ last.op = "upload" /\ ~last.raised
  /\ last.uploaded_count > 0
  /\ PutsTried(last.log) \ PutsOk(last.log) # {}
  /\ local = EmptyFs

(***************************************************************************)
(* C22.  With main's loop running and every put of every upload pass       *)
(* failing, an artifact of the local directory whose modification age has  *)
(* passed the threshold of the sweep is eventually deleted: none stays     *)
(* forever.                                                                *)
(***************************************************************************)
C22_BoundedLifetime ==
  /\ \A p \in LifetimePaths : (p \in Stale(local, clock)) ~> (p \notin DOMAIN local)
  /\ (Stale(local, clock) # {}) ~> (Stale(local, clock) = {})

\* An upload step after the first, none of whose puts succeeded, has swept
\* the artifacts that had passed the threshold.
C22_Witness ==
  /\ last.op = "upload" /\ main.pc = "uploaded"
  /\ clock >= SweepNow + UPLOAD_INTERVAL
  /\ last.uploaded_count = 0 /\ PutsTried(last.log) # {}
  /\ Stale(last.swept, clock) # {}
  /\ Stale(local, clock) = {}
  /\ Artifacts(local) # {}

(***************************************************************************)
(* C27.  In main's loop the first upload step runs in the first iteration, *)
(* before any collection tick but the one before the loop; two collection  *)
(* ticks are never started less than the collection interval apart and two *)
(* upload steps never less than the upload interval apart; the upload step *)
(* of an iteration starts when the collection tick of that iteration has   *)
(* returned.                                                               *)
(***************************************************************************)
C27_StartsApart ==
  [][/\ FirstUploadAtOnce
     /\ CollectsApart
     /\ UploadsApart(UPLOAD_INTERVAL)
     /\ CollectBeforeUpload]_vars

\* C27 as the loop keeps it: the readings of the time at which two upload
\* steps are decided are at least the upload interval apart, and the steps
\* are started at least the upload interval less the running time of a
\* collection tick apart; the rest as stated.
C27_ReadingsApart ==
  [][/\ FirstUploadAtOnce
     /\ CollectsApart
     /\ UploadReadingsApart
     /\ UploadsApart(UPLOAD_INTERVAL - LongestDuration)
     /\ CollectBeforeUpload]_vars

\* An upload step after the first has started later than the reading of the
\* time that decided it, the collection tick of its iteration having taken
\* time.
C27_Witness ==
  /\ main.pc = "uploaded" /\ last.op = "upload"
  /\ main.last_upload_time >= StartTime + UPLOAD_INTERVAL
  /\ main.upload_started > main.last_upload_time
  /\ main.collect_started = main.current_time

====
